---- MODULE Spec2Model ----
(***************************************************************************)
(* Model of the uber post-process pass of bevy_prototype_postprocess       *)
(* (src/src/render.rs, src/src/components.rs).                             *)
(*                                                                         *)
(* One frame of the render app is the sequence of stages                   *)
(*   extract -> prepare -> queue -> render -> cleanup                      *)
(* The systems of this repository are extract_uber, prepare_uber,          *)
(* queue_meshes, UberPassNode::run and DrawUber::draw.  The engine types   *)
(* they call (Commands, TextureCache, UniformVec, the view extraction and  *)
(* preparation systems, the per-frame clearing of render entities) are     *)
(* modelled by what the engine does at the call sites.                     *)
(*                                                                         *)
(* An Option<T> is a sequence of length 0 (None) or 1 (Some).              *)
(***************************************************************************)
EXTENDS Integers, Sequences, FiniteSets, TLC

\* ------------------------------------------------------------- bounds
MaxFrames == 2
MaxRuns == 2
MaxMutations == 1

\* The view entities of the host world, and the pixel sizes a view can have.
Entities == {1, 2}
ViewSizes == {<<1, 2>>, <<2, 1>>}

\* ------------------------------------------------------------- UberFlags
BLOOM == 1
NORMAL_TONEMAPPING == 2
ACES_TONEMAPPING == 4
CHANNEL_MIXING == 8

\* UberFlags::contains for a single-bit flag
HasFlag(flags, bit) == (flags \div bit) % 2 = 1

\* every value of the bitflags type: any union of the four bits
AllFlags == 0 .. (BLOOM + NORMAL_TONEMAPPING + ACES_TONEMAPPING + CHANNEL_MIXING)

\* Bloom::default().intensity and a second intensity the host may set
BloomIntensities == {0, 5}

\* UberUniform { flags, bloom, channel_mixing }
UberUniform(flags, intensity) ==
    [flags |-> flags, bloom |-> [intensity |-> intensity], channel_mixing |-> "default"]

AllConfigs == {UberUniform(f, i) : f \in AllFlags, i \in BloomIntensities}

\* the configurations the host switches between in the pipeline specification
MainConfigs == {UberUniform(0, 0), UberUniform(BLOOM + ACES_TONEMAPPING, 5)}

None == <<>>
Some(v) == <<v>>
IsSome(o) == Len(o) = 1
Get(o) == o[1]

\* ------------------------------------------------------------- state
VARIABLES
    pc,                     \* the stage the render app is about to run
    frame,                  \* number of the current frame
    mutations,              \* host mutations of the configuration so far
    uber_config,            \* host world: Res<UberUniform>
    extracted,              \* render world: Option<ExtractedUberUniform>
    extracted_view,         \* entity -> Option<ExtractedView>
    uber_phase,             \* entity -> Option<RenderPhase<UberPhase>>
    view_uniform_offset,    \* entity -> Option<ViewUniformOffset>
    view_uber,              \* entity -> Option<ViewUber>
    uber_view_bind_group,   \* entity -> Option<UberViewBindGroup>
    uber_config_bind_group, \* Option<UberConfigBindGroup> (a resource)
    view_meta,              \* ViewMeta.uniforms: a UniformVec
    uber_meta,              \* UberMeta.uniform: a UniformVec
    texture_cache,          \* TextureCache: the cached textures in creation order
    device,                 \* RenderDevice: counters of the objects it created
    encoder,                \* the frame's command encoder: a sequence of commands
    node,                   \* the invocations of UberPassNode::run this frame
    previous                \* what the previous frame prepared, held and created

vars == <<pc, frame, mutations, uber_config, extracted, extracted_view, uber_phase,
          view_uniform_offset, view_uber, uber_view_bind_group,
          uber_config_bind_group, view_meta, uber_meta, texture_cache, device,
          encoder, node, previous>>

host_vars == <<uber_config, mutations>>
entity_vars == <<extracted_view, uber_phase, view_uniform_offset, view_uber,
                 uber_view_bind_group>>

NoComponents == [e \in Entities |-> None]

\* UniformVec::default(): no values, no capacity, no buffers.  staging and
\* uniform hold the contents of the two buffers (None: buffer not created).
EmptyUniformVec == [values |-> <<>>, capacity |-> 0, staging |-> None, uniform |-> None]

\* ------------------------------------------------------------- UniformVec
\* (mutation) the values are kept and room is reserved for them as well
ReserveAndClear_KeepsValues(uv, capacity, dev) ==
    [vec |-> [values |-> uv.values, capacity |-> Len(uv.values) + capacity,
              staging |-> Some([id |-> dev.buffers + 1, data |-> <<>>]),
              uniform |-> Some([id |-> dev.buffers + 2, data |-> <<>>])],
     dev |-> [dev EXCEPT !.buffers = @ + 2]]

\* UniformVec::reserve_and_clear: drop the values; when the capacity asked for
\* exceeds the current one, replace both buffers by new, larger ones.
ReserveAndClear(uv, capacity, dev) ==
    IF capacity > uv.capacity
    THEN [vec |-> [values |-> <<>>, capacity |-> capacity,
                   staging |-> Some([id |-> dev.buffers + 1, data |-> <<>>]),
                   uniform |-> Some([id |-> dev.buffers + 2, data |-> <<>>])],
          dev |-> [dev EXCEPT !.buffers = @ + 2]]
    ELSE [vec |-> [uv EXCEPT !.values = <<>>], dev |-> dev]

\* UniformVec::push succeeds while len < capacity (it panics otherwise)
CanPush(uv) == Len(uv.values) < uv.capacity
Push(uv, value) == [uv EXCEPT !.values = Append(@, value)]

\* std140 layout of a ViewUniform, reduced to the view it belongs to
ViewUniformStd140(v) == <<v.view>>

\* (mutation) the flags word is left out of the block (written as zero)
UberUniformStd140_NoFlags(u) == <<0, u.bloom.intensity, u.channel_mixing>>

\* std140 layout of UberUniform: the flags word, the bloom block, the channel
\* mixing block, in field order
UberUniformStd140(u) == <<u.flags, u.bloom.intensity, u.channel_mixing>>

\* AsStd140::as_std140 of the value types the uniform vectors hold
AsStd140(value) ==
    IF "flags" \in DOMAIN value THEN UberUniformStd140(value) ELSE ViewUniformStd140(value)

\* UniformVec::write_to_staging_buffer: the values, each in its std140 layout,
\* are written at offset 0 of the staging buffer when it exists.
WriteToStagingBuffer(uv) ==
    IF IsSome(uv.staging)
    THEN [uv EXCEPT !.staging = Some([Get(@) EXCEPT !.data =
                         [i \in 1 .. Len(uv.values) |-> AsStd140(uv.values[i])]])]
    ELSE uv

\* UniformVec::write_to_uniform_buffer: one copy command staging -> uniform
\* when both buffers exist, no command otherwise.
CopyCommand(uv) ==
    IF IsSome(uv.staging) /\ IsSome(uv.uniform)
    THEN << [op |-> "copy_buffer_to_buffer", src |-> Get(uv.staging).id,
             dst |-> Get(uv.uniform).id, len |-> Len(uv.values)] >>
    ELSE << >>

\* the effect of that copy on the uniform buffer once the commands execute
WriteToUniformBuffer(uv) ==
    IF IsSome(uv.staging) /\ IsSome(uv.uniform)
    THEN [uv EXCEPT !.uniform = Some([Get(@) EXCEPT !.data =
                                       SubSeq(Get(uv.staging).data, 1, Len(uv.values))])]
    ELSE uv

\* UniformVec::binding: the uniform buffer the binding refers to (0: no buffer)
Binding(uv) == IF IsSome(uv.uniform) THEN Get(uv.uniform).id ELSE 0

\* ------------------------------------------------------------- TextureCache
\* (mutation) width and height exchanged
TextureDescriptor_Transposed(view) ==
    [width |-> view.height, height |-> view.width, format |-> "R8Unorm",
     usage |-> {"RENDER_ATTACHMENT", "SAMPLED"}]

\* the TextureDescriptor prepare_uber asks the texture cache for
TextureDescriptor(view) ==
    [width |-> view.width, height |-> view.height, format |-> "R8Unorm",
     usage |-> {"RENDER_ATTACHMENT", "SAMPLED"}]

\* index of the first cached texture of this descriptor that is not taken, or 0
RECURSIVE FirstFree(_, _, _)
FirstFree(textures, descriptor, i) ==
    IF i > Len(textures) THEN 0
    ELSE IF textures[i].descriptor = descriptor /\ ~textures[i].taken THEN i
    ELSE FirstFree(textures, descriptor, i + 1)

\* (mutation) a cached texture of the descriptor is handed out whether or not
\* it was taken this frame
TextureCacheGet_IgnoresTaken(textures, dev, descriptor) ==
    LET hits == {i \in 1 .. Len(textures) : textures[i].descriptor = descriptor} IN
    IF hits # {}
    THEN LET i == CHOOSE x \in hits : \A y \in hits : x <= y IN
         [textures |-> [textures EXCEPT ![i].taken = TRUE, ![i].frames_since_last_use = 0],
          dev |-> dev, texture |-> textures[i].texture]
    ELSE [textures |-> Append(textures, [texture |-> dev.textures + 1,
                                         descriptor |-> descriptor, taken |-> TRUE,
                                         frames_since_last_use |-> 0]),
          dev |-> [dev EXCEPT !.textures = @ + 1], texture |-> dev.textures + 1]

\* TextureCache::get: hand out a cached texture of the descriptor that no one
\* took this frame, marking it taken; create a texture when there is none.
TextureCacheGet(textures, dev, descriptor) ==
    LET i == FirstFree(textures, descriptor, 1) IN
    IF i > 0
    THEN [textures |-> [textures EXCEPT ![i].taken = TRUE, ![i].frames_since_last_use = 0],
          dev |-> dev, texture |-> textures[i].texture]
    ELSE [textures |-> Append(textures, [texture |-> dev.textures + 1,
                                         descriptor |-> descriptor, taken |-> TRUE,
                                         frames_since_last_use |-> 0]),
          dev |-> [dev EXCEPT !.textures = @ + 1], texture |-> dev.textures + 1]

\* TextureCache::update, run in the cleanup stage: every texture ages by one
\* frame and is free again; textures unused for 3 frames are dropped.
TextureCacheUpdate(textures) ==
    LET aged == [i \in 1 .. Len(textures) |->
                    [textures[i] EXCEPT !.taken = FALSE, !.frames_since_last_use = @ + 1]]
    IN SelectSeq(aged, LAMBDA t : t.frames_since_last_use < 3)

\* ------------------------------------------------------------- queries
\* the entities of a set in query iteration order (ascending id)
RECURSIVE InOrder(_)
InOrder(S) ==
    IF S = {} THEN <<>>
    ELSE LET m == CHOOSE x \in S : \A y \in S : x <= y IN <<m>> \o InOrder(S \ {m})

\* Query<(Entity, &ExtractedView), With<RenderPhase<UberPhase>>>
PrepareQuery == {e \in Entities : IsSome(extracted_view[e]) /\ IsSome(uber_phase[e])}
\* Query<(Entity, &mut RenderPhase<UberPhase>)>
QueueQuery == {e \in Entities : IsSome(uber_phase[e])}
\* Query<&ExtractedView> of the engine's view preparation
ViewQuery == {e \in Entities : IsSome(extracted_view[e])}
\* (mutation) the node's query state matches no entity
MainViewQuery_MatchesNothing(e) == FALSE

\* QueryState<(&ViewUber, &RenderPhase<UberPhase>)>::get_manual(..).ok()
MainViewQuery(e) == e \in Entities /\ IsSome(view_uber[e]) /\ IsSome(uber_phase[e])
\* Query<(&ViewUniformOffset, &UberViewBindGroup)>::get(view)
DrawQuery(e) == e \in Entities /\ IsSome(view_uniform_offset[e])
                    /\ IsSome(uber_view_bind_group[e])
\* the entity exists in the render world: something was spawned onto it this frame
Exists(e) == e \in Entities /\ (IsSome(extracted_view[e]) \/ IsSome(uber_phase[e]))

\* ------------------------------------------------------------- Init
Init ==
    /\ pc = "extract_views"
    /\ frame = 1
    /\ mutations = 0
    /\ uber_config \in {UberUniform(0, 0)}
    /\ extracted = None
    /\ extracted_view = NoComponents
    /\ uber_phase = NoComponents
    /\ view_uniform_offset = NoComponents
    /\ view_uber = NoComponents
    /\ uber_view_bind_group = NoComponents
    /\ uber_config_bind_group = None
    /\ view_meta = EmptyUniformVec
    /\ uber_meta = EmptyUniformVec
    /\ texture_cache = <<>>
    /\ device = [buffers |-> 0, textures |-> 0, bind_groups |-> 0]
    /\ encoder = <<>>
    /\ node = <<>>
    /\ previous = [views |-> NoComponents, textures |-> {}, bind_groups |-> {},
                   created |-> {}]

\* ------------------------------------------------------------- host
\* The host application edits its configuration resource; the app world is
\* not synchronised with the render stages other than at extraction.
Mutate(configs) ==
    /\ pc # "done"
    /\ mutations < MaxMutations
    /\ \E c \in configs \ {uber_config} : uber_config' = c
    /\ mutations' = mutations + 1
    /\ UNCHANGED <<pc, frame, extracted, entity_vars,
                   uber_config_bind_group, view_meta, uber_meta, texture_cache,
                   device, encoder, node, previous>>

\* ------------------------------------------------------------- extract stage
\* The engine's extraction: an ExtractedView (pixel width and height) for
\* every view whose window exists, and the draw-phase components other
\* extraction systems put on views.
extract_views(views, phased) ==
    /\ pc = "extract_views"
    /\ extracted_view' = views
    /\ uber_phase' = [e \in Entities |-> IF e \in phased THEN Some(<<>>) ELSE None]
    /\ pc' = "extract_uber"
    /\ UNCHANGED <<frame, host_vars, extracted, view_uniform_offset, view_uber,
                   uber_view_bind_group, uber_config_bind_group, view_meta, uber_meta,
                   texture_cache, device, encoder, node, previous>>

CameraChoices == {None} \cup {Some(e) : e \in Entities}
ViewChoices == [Entities -> {None} \cup {Some([width |-> s[1], height |-> s[2]]) : s \in ViewSizes}]

extract_uber_EveryView(camera) ==
    /\ pc = "extract_uber"
    /\ uber_phase' = [e \in Entities |->
                         IF IsSome(extracted_view[e]) THEN Some(<<>>) ELSE uber_phase[e]]
    /\ extracted' = Some(uber_config)
    /\ pc' = "prepare_views"
    /\ UNCHANGED <<frame, host_vars, extracted_view, view_uniform_offset,
                   view_uber, uber_view_bind_group, uber_config_bind_group, view_meta,
                   uber_meta, texture_cache, device, encoder, node, previous>>

\* extract_uber: an empty RenderPhase<UberPhase> on the active 3d camera's
\* entity (camera is ActiveCameras.get(CAMERA_3D)'s entity, an Option), and a
\* clone of the host configuration as a render-world resource.
extract_uber(camera) ==
    /\ pc = "extract_uber"
    /\ uber_phase' = IF IsSome(camera)
                     THEN [uber_phase EXCEPT ![Get(camera)] = Some(<<>>)]
                     ELSE uber_phase
    /\ extracted' = Some(uber_config)
    /\ pc' = "prepare_views"
    /\ UNCHANGED <<frame, host_vars, extracted_view, view_uniform_offset,
                   view_uber, uber_view_bind_group, uber_config_bind_group, view_meta,
                   uber_meta, texture_cache, device, encoder, node, previous>>

\* ------------------------------------------------------------- prepare stage
RECURSIVE PushViews(_, _, _)
PushViews(es, uv, offsets) ==
    IF es = <<>> THEN [vec |-> uv, offsets |-> offsets]
    ELSE PushViews(Tail(es), Push(uv, [view |-> Head(es)]),
                   [offsets EXCEPT ![Head(es)] = Some([offset |-> Len(uv.values)])])

\* The engine's view preparation: one ViewUniform per extracted view pushed to
\* ViewMeta.uniforms, its index kept on the view as ViewUniformOffset.
prepare_views ==
    /\ pc = "prepare_views"
    /\ LET rc == ReserveAndClear(view_meta, Cardinality(ViewQuery), device)
           pushed == PushViews(InOrder(ViewQuery), rc.vec, view_uniform_offset)
       IN /\ view_meta' = WriteToStagingBuffer(pushed.vec)
          /\ view_uniform_offset' = pushed.offsets
          /\ device' = rc.dev
    /\ pc' = "prepare_uber"
    /\ UNCHANGED <<frame, host_vars, extracted, extracted_view, uber_phase,
                   view_uber, uber_view_bind_group, uber_config_bind_group, uber_meta,
                   texture_cache, encoder, node, previous>>

\* the loop of prepare_uber over the views: a texture of the view's size from
\* the cache, and a ViewUber holding it and its texture view
RECURSIVE PrepareTargets(_, _, _, _)
PrepareTargets(es, textures, dev, targets) ==
    IF es = <<>> THEN [textures |-> textures, dev |-> dev, targets |-> targets]
    ELSE LET got == TextureCacheGet(textures, dev,
                                    TextureDescriptor(Get(extracted_view[Head(es)])))
         IN PrepareTargets(Tail(es), got.textures, got.dev,
                [targets EXCEPT ![Head(es)] =
                    Some([view_uber_texture |-> got.texture,
                          view_uber_texture_view |-> got.texture])])

\* (mutation) prepare_uber packs the host's resource instead of the extracted one
PreparedConfig_ReadsHost == uber_config

\* the configuration prepare_uber packs: the extracted resource
PreparedConfig == Get(extracted)

\* the views prepare_uber iterates over
PreparedViews == InOrder(PrepareQuery)

prepare_uber ==
    /\ pc = "prepare_uber"
    /\ LET rc == ReserveAndClear(uber_meta, 1, device)
           tg == PrepareTargets(PreparedViews, texture_cache, rc.dev, view_uber)
       IN IF CanPush(rc.vec)
          THEN /\ uber_meta' = WriteToStagingBuffer(Push(rc.vec, PreparedConfig))
               /\ texture_cache' = tg.textures
               /\ device' = tg.dev
               /\ view_uber' = tg.targets
               /\ pc' = "queue"
          ELSE /\ pc' = "panicked"
               /\ UNCHANGED <<uber_meta, texture_cache, device, view_uber>>
    /\ UNCHANGED <<frame, host_vars, extracted, extracted_view, uber_phase,
                   view_uniform_offset, uber_view_bind_group, uber_config_bind_group,
                   view_meta, encoder, node, previous>>

\* ------------------------------------------------------------- pipeline
\* UberEffectShaders::from_world: the bind group layout view_layout has one
\* entry, a uniform buffer at binding 0 visible to the fragment stage, without
\* dynamic offset; the layout of the pipeline lists view_layout alone.
view_layout ==
    [entries |-> << [binding |-> 0, visibility |-> "FRAGMENT", ty |-> "Uniform",
                     has_dynamic_offset |-> FALSE] >>]

pipeline_layout == [bind_group_layouts |-> <<view_layout>>, push_constant_ranges |-> <<>>]

\* the number of dynamic offsets a bind group of this layout is bound with
DynamicOffsetCount(layout) ==
    Cardinality({i \in 1 .. Len(layout.entries) : layout.entries[i].has_dynamic_offset})

\* ------------------------------------------------------------- queue stage
\* RenderDevice::create_bind_group: a new bind group of view_layout with one
\* entry, binding 0, the given uniform buffer
BindGroup(id, buffer) == [id |-> id, layout |-> "view_layout", buffer |-> buffer]

\* (mutation) the view's index used as sort key
Drawable_SortByIndex(i) == [draw_function |-> "DrawUber", draw_key |-> i, sort_key |-> i]

\* Drawable { draw_function, draw_key, sort_key }
Drawable(i) == [draw_function |-> "DrawUber", draw_key |-> i, sort_key |-> 0]

\* (mutation) one bind group created for the first view and given to every view
QueueViews_SharedGroup(es, i, next, groups, phases) ==
    LET at(e) == CHOOSE k \in 1 .. Len(es) : es[k] = e
        queued == {es[k] : k \in 1 .. Len(es)}
    IN [next |-> IF es = <<>> THEN next ELSE next + 1,
        groups |-> [e \in Entities |->
                      IF e \in queued
                      THEN Some([view_bind_group |-> BindGroup(next + 1, Binding(view_meta))])
                      ELSE groups[e]],
        phases |-> [e \in Entities |->
                      IF e \in queued
                      THEN Some(Append(Get(phases[e]), Drawable(i + at(e) - 1)))
                      ELSE phases[e]]]

\* the loop of queue_meshes over the views, i counting from 0
RECURSIVE QueueViews(_, _, _, _, _)
QueueViews(es, i, next, groups, phases) ==
    IF es = <<>> THEN [next |-> next, groups |-> groups, phases |-> phases]
    ELSE QueueViews(Tail(es), i + 1, next + 1,
            [groups EXCEPT ![Head(es)] =
                Some([view_bind_group |-> BindGroup(next + 1, Binding(view_meta))])],
            [phases EXCEPT ![Head(es)] = Some(Append(Get(@), Drawable(i)))])

\* (mutation) no early return
QueueSkips_Never == FALSE

\* the early return of queue_meshes
QueueSkips == Len(view_meta.values) < 1

\* (mutation) the shared bind group is kept from the previous frame when there is one
QueuedConfigBindGroup_Cached ==
    IF IsSome(uber_config_bind_group) THEN uber_config_bind_group
    ELSE Some([uber_config_bind_group |-> BindGroup(device.bind_groups + 1, Binding(uber_meta))])

\* the shared bind group queue_meshes inserts as a resource
QueuedConfigBindGroup ==
    Some([uber_config_bind_group |-> BindGroup(device.bind_groups + 1, Binding(uber_meta))])

queue_meshes ==
    /\ pc = "queue"
    /\ IF QueueSkips
       THEN UNCHANGED <<uber_config_bind_group, uber_view_bind_group, uber_phase, device>>
       ELSE LET q == QueueViews(InOrder(QueueQuery), 0, device.bind_groups + 1,
                                uber_view_bind_group, uber_phase)
            IN /\ uber_config_bind_group' = QueuedConfigBindGroup
               /\ uber_view_bind_group' = q.groups
               /\ uber_phase' = q.phases
               /\ device' = [device EXCEPT !.bind_groups = q.next]
    /\ pc' = IF ~QueueSkips /\ (Binding(uber_meta) = 0 \/ Binding(view_meta) = 0)
             THEN "panicked" ELSE "render"
    /\ UNCHANGED <<frame, host_vars, extracted, extracted_view,
                   view_uniform_offset, view_uber, view_meta, uber_meta, texture_cache,
                   encoder, node, previous>>

\* ------------------------------------------------------------- render stage
\* DrawUber::draw panics when the UberConfigBindGroup resource is missing or the
\* view has no ViewUniformOffset or no UberViewBindGroup (the unwrap)
DrawPanics(view) == ~IsSome(uber_config_bind_group) \/ ~DrawQuery(view)

\* (mutation) the two bind groups bound at each other's slot
DrawUber_SlotsExchanged(view) ==
    << [op |-> "set_render_pipeline", pipeline |-> "uber"],
       [op |-> "set_bind_group", index |-> 1,
        bind_group |-> Get(uber_view_bind_group[view]).view_bind_group.id,
        offsets |-> <<Get(view_uniform_offset[view]).offset>>],
       [op |-> "set_bind_group", index |-> 0,
        bind_group |-> Get(uber_config_bind_group).uber_config_bind_group.id,
        offsets |-> <<>>],
       [op |-> "draw", vertices |-> 3, instances |-> 1] >>

\* DrawUber::draw: the commands it writes into the pass
DrawUber(view) ==
    << [op |-> "set_render_pipeline", pipeline |-> "uber"],
       [op |-> "set_bind_group", index |-> 0,
        bind_group |-> Get(uber_view_bind_group[view]).view_bind_group.id,
        offsets |-> <<Get(view_uniform_offset[view]).offset>>],
       [op |-> "set_bind_group", index |-> 1,
        bind_group |-> Get(uber_config_bind_group).uber_config_bind_group.id,
        offsets |-> <<>>],
       [op |-> "draw", vertices |-> 3, instances |-> 1] >>

\* (mutation) the draw function of every entry invoked twice
RECURSIVE DrawAll_Twice(_, _)
DrawAll_Twice(view, drawables) ==
    IF drawables = <<>> \/ DrawPanics(view) THEN <<>>
    ELSE DrawUber(view) \o DrawUber(view) \o DrawAll_Twice(view, Tail(drawables))

\* the loop of run over drawn_things, up to the first draw that panics
RECURSIVE DrawAll(_, _)
DrawAll(view, drawables) ==
    IF drawables = <<>> \/ DrawPanics(view) THEN <<>>
    ELSE DrawUber(view) \o DrawAll(view, Tail(drawables))

\* the render pass of run: begun on the view's texture view, cleared to black,
\* no depth attachment; ended when the pass goes out of scope
PassCommands(view) ==
    << [op |-> "begin_render_pass", label |-> "uber",
        view |-> Get(view_uber[view]).view_uber_texture_view,
        load |-> "clear_black", depth_stencil_attachment |-> None] >>
    \o DrawAll(view, Get(uber_phase[view]))
    \o (IF Get(uber_phase[view]) # <<>> /\ DrawPanics(view) THEN <<>>
        ELSE << [op |-> "end_render_pass"] >>)

\* graph.get_input_entity(IN_VIEW)?: the slot holds an entity or the call fails
InputError(input) == input = None

\* the view passes the node's query: it has a ViewUber and a RenderPhase
OpensPass(input) == ~InputError(input) /\ MainViewQuery(Get(input))

\* (mutation) the upload recorded after the pass instead of before it
RunCommands_UploadLast(input) ==
    (IF OpensPass(input) THEN PassCommands(Get(input)) ELSE <<>>) \o CopyCommand(uber_meta)

\* the commands one invocation of run records, in order
RunCommands(input) ==
    CopyCommand(uber_meta) \o (IF OpensPass(input) THEN PassCommands(Get(input)) ELSE <<>>)

\* (mutation) a view entity the render world does not hold fails the node
RunResult_MissingEntityFails(input) ==
    IF InputError(input) \/ ~Exists(Get(input)) THEN "Err" ELSE "Ok"

\* (mutation) a view the node's query does not match fails the node
RunResult_UnmatchedViewFails(input) ==
    IF InputError(input) \/ ~MainViewQuery(Get(input)) THEN "Err" ELSE "Ok"

\* what run returns
RunResult(input) ==
    IF InputError(input) THEN "Err"
    ELSE IF OpensPass(input) /\ Get(uber_phase[Get(input)]) # <<>> /\ DrawPanics(Get(input))
    THEN "panic"
    ELSE "Ok"

\* UberPassNode::run, with the entity (or nothing) the graph has in its "view" slot
run(input) ==
    /\ pc = "render"
    /\ Len(node) < MaxRuns
    /\ encoder' = encoder \o RunCommands(input)
    /\ uber_meta' = WriteToUniformBuffer(uber_meta)
    /\ node' = Append(node, [input |-> input, result |-> RunResult(input),
                             first |-> Len(encoder) + 1,
                             last |-> Len(encoder) + Len(RunCommands(input))])
    /\ pc' = IF RunResult(input) = "panic" THEN "panicked" ELSE "render"
    /\ UNCHANGED <<frame, host_vars, extracted, entity_vars,
                   uber_config_bind_group, view_meta, texture_cache, device, previous>>

InputChoices == {None} \cup {Some(e) : e \in Entities}

\* the render graph has run: the frame's commands are submitted
finish_render ==
    /\ pc = "render"
    /\ pc' = "cleanup"
    /\ UNCHANGED <<frame, host_vars, extracted, entity_vars,
                   uber_config_bind_group, view_meta, uber_meta, texture_cache, device,
                   encoder, node, previous>>

\* ------------------------------------------------------------- cleanup stage
\* the bind groups the render world holds
BindGroupsHeld ==
    {Get(uber_view_bind_group[e]).view_bind_group.id :
        e \in {x \in Entities : IsSome(uber_view_bind_group[x])}}
    \cup (IF IsSome(uber_config_bind_group)
          THEN {Get(uber_config_bind_group).uber_config_bind_group.id} ELSE {})

\* the textures the views of this frame render to
TexturesHeld ==
    {Get(view_uber[e]).view_uber_texture : e \in {x \in Entities : IsSome(view_uber[x])}}

\* The engine's cleanup: the texture cache is updated and every entity of the
\* render world is cleared; resources stay.
cleanup ==
    /\ pc = "cleanup"
    /\ texture_cache' = TextureCacheUpdate(texture_cache)
    /\ extracted_view' = NoComponents
    /\ uber_phase' = NoComponents
    /\ view_uniform_offset' = NoComponents
    /\ view_uber' = NoComponents
    /\ uber_view_bind_group' = NoComponents
    /\ encoder' = <<>>
    /\ node' = <<>>
    /\ previous' = [views |-> [e \in Entities |->
                                 IF IsSome(view_uber[e]) THEN extracted_view[e] ELSE None],
                    textures |-> TexturesHeld,
                    bind_groups |-> BindGroupsHeld,
                    created |-> BindGroupsHeld \ previous.bind_groups]
    /\ IF frame < MaxFrames
       THEN frame' = frame + 1 /\ pc' = "extract_views"
       ELSE frame' = frame /\ pc' = "done"
    /\ UNCHANGED <<host_vars, extracted, uber_config_bind_group, view_meta,
                   uber_meta, device>>

\* ------------------------------------------------------------- specification
\* The pipeline over every set of views, with the configuration left alone.
Next ==
    \/ \E views \in ViewChoices, phased \in SUBSET Entities : extract_views(views, phased)
    \/ \E camera \in CameraChoices : extract_uber(camera)
    \/ prepare_views
    \/ prepare_uber
    \/ queue_meshes
    \/ \E input \in InputChoices : run(input)
    \/ finish_render
    \/ cleanup

Spec == Init /\ [][Next]_vars

\* The pipeline of one view (entity 1, the active 3d camera), with the host
\* editing the configuration at any moment of the frame.
OneView == [e \in Entities |-> IF e = 1 THEN Some([width |-> 2, height |-> 1]) ELSE None]

NextHost ==
    \/ Mutate(AllConfigs)
    \/ extract_views(OneView, {})
    \/ extract_uber(Some(1))
    \/ prepare_views
    \/ prepare_uber
    \/ queue_meshes
    \/ run(Some(1))
    \/ finish_render
    \/ cleanup

SpecHost == Init /\ [][NextHost]_vars

\* The pipeline over frames of zero, one or two views (entity 1 the active 3d
\* camera, entity 2 a view another extraction system gave a draw phase), with
\* the host switching between two configurations at any moment.
FrameViews ==
    {NoComponents, OneView,
     [e \in Entities |-> Some([width |-> 2, height |-> 1])]}

NextFrames ==
    \/ Mutate(MainConfigs)
    \/ \E views \in FrameViews :
          extract_views(views, {e \in Entities : e # 1 /\ IsSome(views[e])})
    \/ extract_uber(Some(1))
    \/ prepare_views
    \/ prepare_uber
    \/ queue_meshes
    \/ \E e \in Entities : run(Some(e))
    \/ finish_render
    \/ cleanup

SpecFrames == Init /\ [][NextFrames]_vars

\* ------------------------------------------------------------- claims
\* the positions in the encoder of the commands invocation k of run recorded
Recorded(k) == node[k].first .. node[k].last
PassOps == {"begin_render_pass", "set_render_pipeline", "set_bind_group", "draw"}
OpensPassIn(k) == \E i \in Recorded(k) : encoder[i].op = "begin_render_pass"
DrawsIn(k) == \E i \in Recorded(k) : encoder[i].op = "draw"
Invocations == 1 .. Len(node)

\* C1: every invocation of UberPassNode::run records the copy of the uniform
\* block from the staging buffer to the uniform buffer as its first command,
\* so the upload precedes the opening of the pass and every draw of that
\* invocation, and no draw in the frame's command stream precedes an upload.
C1_UploadBeforePass ==
    \A k \in Invocations :
        /\ node[k].first <= node[k].last
        /\ encoder[node[k].first].op = "copy_buffer_to_buffer"
        /\ \A i \in Recorded(k) :
              encoder[i].op \in PassOps =>
                 \E j \in Recorded(k) : j < i /\ encoder[j].op = "copy_buffer_to_buffer"

C1_Witness == \E k \in Invocations : OpensPassIn(k) /\ DrawsIn(k)

\* C2 (as claimed): an invocation whose view entity has no record in the render
\* world returns an error.
C2_UnresolvableViewFails ==
    \A k \in Invocations :
        (IsSome(node[k].input) /\ ~Exists(Get(node[k].input))) => node[k].result = "Err"

\* C2 (amended): run returns an error exactly when the "view" input slot
\* cannot be read as an entity; for an entity the render world holds no record
\* of, it records the upload only, opens no pass and returns Ok.
C2_ErrorOnlyOnInputSlot ==
    \A k \in Invocations :
        /\ node[k].result = "Err" <=> node[k].input = None
        /\ (IsSome(node[k].input) /\ ~Exists(Get(node[k].input))) =>
              (node[k].result = "Ok" /\ ~OpensPassIn(k) /\ ~DrawsIn(k))

C2_Witness ==
    \E k \in Invocations :
        IsSome(node[k].input) /\ ~Exists(Get(node[k].input)) /\ node[k].result = "Ok"

\* C3: an invocation on a view that exists in the render world but has neither
\* a ViewUber nor a RenderPhase<UberPhase> opens no render pass, invokes no
\* draw function and returns Ok.
C3_NoTargetNoPhaseNoPass ==
    \A k \in Invocations :
        LET in == node[k].input IN
        (IsSome(in) /\ Exists(Get(in)) /\ ~IsSome(view_uber[Get(in)])
            /\ ~IsSome(uber_phase[Get(in)]))
        => (node[k].result = "Ok" /\ \A i \in Recorded(k) : encoder[i].op \notin PassOps)

C3_Witness ==
    \E k \in Invocations :
        LET in == node[k].input IN
        /\ IsSome(in) /\ Exists(Get(in))
        /\ ~IsSome(view_uber[Get(in)]) /\ ~IsSome(uber_phase[Get(in)])
        /\ node[k].result = "Ok"

\* C4 (as claimed): an invocation on an existing view that has a ViewUber or a
\* RenderPhase<UberPhase> (at least one of them) opens a render pass.
C4_PassUnlessBothMissing ==
    \A k \in Invocations :
        LET in == node[k].input IN
        (IsSome(in) /\ Exists(Get(in))
            /\ (IsSome(view_uber[Get(in)]) \/ IsSome(uber_phase[Get(in)])))
        => OpensPassIn(k)

\* C4 (amended): an invocation opens a render pass exactly when the view has
\* both a ViewUber and a RenderPhase<UberPhase>; with either one missing the
\* node opens no pass and returns Ok.
C4_PassIffTargetAndPhase ==
    \A k \in Invocations :
        LET in == node[k].input IN
        IsSome(in) =>
            /\ OpensPassIn(k) <=> (IsSome(view_uber[Get(in)]) /\ IsSome(uber_phase[Get(in)]))
            /\ ~OpensPassIn(k) => (node[k].result = "Ok" /\ ~DrawsIn(k))

C4_Witness ==
    \E k \in Invocations :
        LET in == node[k].input IN
        /\ IsSome(in) /\ IsSome(uber_phase[Get(in)]) /\ ~IsSome(view_uber[Get(in)])
        /\ ~OpensPassIn(k) /\ node[k].result = "Ok"

\* C5: a run of queue_meshes while ViewMeta.uniforms is empty creates no bind
\* group (neither the shared one nor a per-view one) and appends nothing: the
\* bind groups held are unchanged and every draw list is empty after it.
C5_QueueSkipsWithoutViewUniforms ==
    [][(pc = "queue" /\ Len(view_meta.values) = 0) =>
          /\ device'.bind_groups = device.bind_groups
          /\ uber_config_bind_group' = uber_config_bind_group
          /\ uber_view_bind_group' = uber_view_bind_group
          /\ \A e \in Entities : IsSome(uber_phase'[e]) => Get(uber_phase'[e]) = <<>>]_vars

C5_Witness ==
    /\ pc = "render" /\ node = <<>>
    /\ Len(view_meta.values) = 0
    /\ \E e \in Entities : IsSome(uber_phase[e]) /\ Get(uber_phase[e]) = <<>>

\* the stages after queue_meshes has run in the current frame
AfterQueue == pc \in {"render", "cleanup"}
\* the stages after prepare_uber has run in the current frame
AfterPrepare == pc \in {"queue", "render", "cleanup"}

\* C6: in every frame in which queue_meshes does not return early, every view
\* with a RenderPhase<UberPhase> has, after the queue stage, a draw list of
\* exactly one Drawable with sort key 0, in the first frame and in later ones.
C6_OneDrawablePerView ==
    (AfterQueue /\ Len(view_meta.values) >= 1) =>
        \A e \in Entities :
            IsSome(uber_phase[e]) =>
                (Len(Get(uber_phase[e])) = 1 /\ Get(uber_phase[e])[1].sort_key = 0)

C6_Witness ==
    /\ AfterQueue /\ frame > 1 /\ Len(view_meta.values) >= 1
    /\ \E e \in Entities :
          /\ IsSome(previous.views[e])
          /\ IsSome(uber_phase[e]) /\ Len(Get(uber_phase[e])) = 1
    /\ Cardinality(QueueQuery) = 2

\* the views prepare_uber has given a target in this frame, with their sizes
PreparedNow == [e \in Entities |-> IF IsSome(view_uber[e]) THEN extracted_view[e] ELSE None]

\* this frame prepares the views the previous frame prepared, at the same sizes
SameViewsAsPrevious ==
    /\ frame > 1
    /\ PreparedNow = previous.views
    /\ \E e \in Entities : IsSome(previous.views[e])

\* C7: when a frame prepares the same views at the same sizes as the frame
\* before it (at least one view), no texture is created in it: the views hold
\* exactly the textures of the previous frame; and the shared bind group and
\* every per-view bind group are new ones, none of them held in the previous
\* frame, which had made its own.
C7_TargetsReusedBindGroupsRebuilt ==
    (AfterQueue /\ SameViewsAsPrevious) =>
        /\ TexturesHeld = previous.textures
        /\ IsSome(uber_config_bind_group)
        /\ \A e \in QueueQuery : IsSome(uber_view_bind_group[e])
        /\ BindGroupsHeld \cap previous.bind_groups = {}
        /\ previous.bind_groups # {}

C7_Witness ==
    /\ AfterQueue /\ SameViewsAsPrevious
    /\ TexturesHeld # {}
    /\ Cardinality(BindGroupsHeld) >= 2

\* the views prepare_uber has given a target in this frame
Prepared == {e \in Entities : IsSome(view_uber[e])}
Target(e) == Get(view_uber[e]).view_uber_texture
\* the descriptor the texture cache holds for a texture
CachedDescriptor(texture) ==
    LET i == CHOOSE j \in 1 .. Len(texture_cache) : texture_cache[j].texture = texture
    IN texture_cache[i].descriptor

StagedBlocks == Get(uber_meta.staging).data
UploadedBlocks == Get(uber_meta.uniform).data
FlagBits == {BLOOM, NORMAL_TONEMAPPING, ACES_TONEMAPPING, CHANNEL_MIXING}

SnapshotStaged ==
    /\ AfterPrepare => StagedBlocks = <<UberUniformStd140(Get(extracted))>>
    /\ (pc \in {"render", "cleanup"} /\ node # <<>>) =>
          UploadedBlocks = <<UberUniformStd140(Get(extracted))>>

\* C10: extract_uber takes the host configuration as it is at extraction; a
\* later host mutation changes neither the snapshot nor the staging or uniform
\* buffer, and what prepare_uber stages and run uploads in the frame is the
\* snapshot.
C10_SnapshotAtExtraction ==
    /\ [](SnapshotStaged)
    /\ [][(pc = "extract_uber" /\ pc' # pc) => extracted' = Some(uber_config)]_vars
    /\ [][uber_config' # uber_config => UNCHANGED <<extracted, uber_meta>>]_vars

C10_Witness ==
    /\ pc = "render" /\ node # <<>>
    /\ uber_config # Get(extracted)
    /\ UploadedBlocks = <<UberUniformStd140(Get(extracted))>>

\* a queue stage that did not return early has run in the current frame
QueuedThisFrame == AfterQueue /\ Len(view_meta.values) >= 1

\* C11 (as claimed): at no point of a frame is a bind group that the previous
\* frame created still held in the render world.
C11_NoBindGroupOfPreviousFrame == BindGroupsHeld \cap previous.created = {}

\* C11 (amended): a per-view bind group never outlives its frame, and after a
\* queue stage that did not return early every bind group held is a new one;
\* the shared UberConfigBindGroup is a resource and stays: until queue_meshes
\* replaces it (for the whole frame when it returns early) the only bind
\* group held is the shared one the previous frame ended with.
C11_OnlySharedBindGroupCarriedOver ==
    /\ \A e \in Entities :
          IsSome(uber_view_bind_group[e]) =>
              Get(uber_view_bind_group[e]).view_bind_group.id \notin previous.bind_groups
    /\ QueuedThisFrame => BindGroupsHeld \cap previous.bind_groups = {}
    /\ ~QueuedThisFrame =>
          /\ \A e \in Entities : ~IsSome(uber_view_bind_group[e])
          /\ BindGroupsHeld \subseteq previous.bind_groups

C11_Witness ==
    /\ frame > 1 /\ AfterQueue /\ ~QueuedThisFrame
    /\ IsSome(uber_config_bind_group)
    /\ Get(uber_config_bind_group).uber_config_bind_group.id \in previous.created

\* the stages that follow extraction within a frame
AfterExtract == pc \in {"prepare_views", "prepare_uber", "queue", "render", "cleanup"}

Queued == {e \in Entities : IsSome(uber_view_bind_group[e])}
ViewBindGroup(e) == Get(uber_view_bind_group[e]).view_bind_group

ViewsPrepared == Cardinality(Prepared)

\* C14: after prepare_uber, in every frame, the staging buffer of the
\* configuration holds exactly one block, the std140 packing of the
\* configuration extracted in that frame, whatever the number of views and
\* whatever earlier frames staged.
C14_OneBlockStaged ==
    AfterPrepare =>
        /\ Len(uber_meta.values) = 1
        /\ Len(StagedBlocks) = 1
        /\ StagedBlocks[1] = <<Get(extracted).flags, Get(extracted).bloom.intensity,
                               Get(extracted).channel_mixing>>

C14_Witness ==
    /\ frame > 1 /\ AfterPrepare
    /\ ViewsPrepared # Cardinality({e \in Entities : IsSome(previous.views[e])})
    /\ ViewsPrepared \in {0, 2}
    /\ mutations > 0
    /\ Len(StagedBlocks) = 1
    /\ StagedBlocks[1][1] = BLOOM + ACES_TONEMAPPING

\* the view's target is a texture of the view's width and height, of format
\* R8Unorm, usable as render attachment and sampled
TargetFitsView(e) ==
    LET d == CachedDescriptor(Target(e))
    IN /\ d.width = Get(extracted_view[e]).width
       /\ d.height = Get(extracted_view[e]).height
       /\ d.format = "R8Unorm"
       /\ d.usage = {"RENDER_ATTACHMENT", "SAMPLED"}

\* C15 (as claimed): after prepare_uber every entity carrying a draw-phase
\* record has a ViewUber.
C15_EveryPhaseHasTarget ==
    AfterPrepare => \A e \in Entities : IsSome(uber_phase[e]) => IsSome(view_uber[e])

\* C15 (amended): after prepare_uber the entities that have a ViewUber are
\* exactly those carrying both a draw-phase record and an ExtractedView, and
\* each one's texture was obtained with a descriptor of that view's width and
\* height, format R8Unorm, usage render attachment and sampled.
C15_TargetForEveryExtractedPhasedView ==
    AfterPrepare =>
        \A e \in Entities :
            /\ IsSome(view_uber[e]) <=> (IsSome(uber_phase[e]) /\ IsSome(extracted_view[e]))
            /\ IsSome(view_uber[e]) => TargetFitsView(e)

C15_Witness ==
    /\ pc = "queue"
    /\ \E a, b \in Entities :
          /\ IsSome(uber_phase[a]) /\ IsSome(view_uber[a]) /\ TargetFitsView(a)
          /\ Get(extracted_view[a]).width # Get(extracted_view[a]).height
          /\ IsSome(uber_phase[b]) /\ ~IsSome(extracted_view[b]) /\ ~IsSome(view_uber[b])

\* the positions of the commands of kind op that invocation k recorded
OpsIn(k, op) == {i \in Recorded(k) : encoder[i].op = op}

InsidePass(k) ==
    LET begin == CHOOSE i \in Recorded(k) : encoder[i].op = "begin_render_pass"
    IN SubSeq(encoder, begin + 1, node[k].last - 1)

\* the position of the first command inside the pass that binds slot index
BindAt(k, index) ==
    CHOOSE i \in 1 .. Len(InsidePass(k)) :
        InsidePass(k)[i].op = "set_bind_group" /\ InsidePass(k)[i].index = index

\* C17: the draw of a view's entry writes into the pass exactly four commands
\* in this order: the uber pipeline bound; the view's own bind group bound at
\* slot 0 with one dynamic offset, the view's ViewUniformOffset; the shared
\* bind group bound at slot 1 with no offset; one non-indexed draw of 3
\* vertices and 1 instance.  The render step changes no component of any
\* entity, no bind group, no view uniform, no texture cache entry and none
\* of the staged values.
C17_DrawWritesFourCommands ==
    /\ [](\A k \in Invocations :
            (OpensPassIn(k) /\ DrawsIn(k)) =>
                LET view == Get(node[k].input)
                    cmds == InsidePass(k)
                IN /\ Len(cmds) = 4
                   /\ cmds[1].op = "set_render_pipeline" /\ cmds[1].pipeline = "uber"
                   /\ BindAt(k, 0) = 2
                   /\ cmds[2].bind_group = ViewBindGroup(view).id
                   /\ cmds[2].offsets = <<Get(view_uniform_offset[view]).offset>>
                   /\ BindAt(k, 1) = 3
                   /\ cmds[3].bind_group = Get(uber_config_bind_group).uber_config_bind_group.id
                   /\ cmds[3].offsets = <<>>
                   /\ cmds[4] = [op |-> "draw", vertices |-> 3, instances |-> 1])
    /\ [][node' # node /\ node' # <<>> =>
             /\ UNCHANGED <<entity_vars, uber_config_bind_group, view_meta,
                            texture_cache, device, extracted>>
             /\ uber_meta'.values = uber_meta.values
             /\ uber_meta'.staging = uber_meta.staging]_vars

C17_Witness ==
    \E k \in Invocations :
        /\ OpensPassIn(k) /\ DrawsIn(k)
        /\ Get(view_uniform_offset[Get(node[k].input)]).offset > 0
        /\ Len(InsidePass(k)) = 4

\* a set_bind_group command fits the layout of the uber pipeline: its slot is
\* one the pipeline layout lists, and it carries as many dynamic offsets as
\* the layout at that slot has entries with a dynamic offset
FitsPipelineLayout(cmd) ==
    /\ cmd.index + 1 <= Len(pipeline_layout.bind_group_layouts)
    /\ Len(cmd.offsets) = DynamicOffsetCount(pipeline_layout.bind_group_layouts[cmd.index + 1])

\* C18: every bind group a draw binds is bound at a slot the pipeline layout
\* declares, and with a dynamic offset only if the layout entry declares one.
C18_BindingsFitPipelineLayout ==
    \A i \in 1 .. Len(encoder) :
        encoder[i].op = "set_bind_group" => FitsPipelineLayout(encoder[i])

\* C19: in every frame, whatever the earlier frames were, a draw that run
\* invokes finds the view's bind group and the shared bind group (no lookup
\* of DrawUber::draw fails), and the bind groups its commands bind are held
\* now and were not held when the previous frame ended: queue_meshes of this
\* frame created them.
C19_DrawsBindThisFramesBindGroups ==
    /\ pc # "panicked"
    /\ \A k \in Invocations :
          /\ node[k].result # "panic"
          /\ (OpensPassIn(k) /\ Get(uber_phase[Get(node[k].input)]) # <<>>) =>
                /\ DrawsIn(k)
                /\ QueuedThisFrame
                /\ IsSome(uber_config_bind_group)
                /\ IsSome(uber_view_bind_group[Get(node[k].input)])
                /\ IsSome(view_uniform_offset[Get(node[k].input)])
          /\ \A i \in OpsIn(k, "set_bind_group") :
                /\ encoder[i].bind_group \in BindGroupsHeld
                /\ encoder[i].bind_group \notin previous.bind_groups

C19_Witness ==
    /\ frame > 1
    /\ previous.created # {}
    /\ PreparedNow # previous.views
    /\ \E k \in Invocations :
          /\ DrawsIn(k)
          /\ OpsIn(k, "set_bind_group") # {}
          /\ node[k].result = "Ok"

====
